---- MODULE Spec2Model ----
(***************************************************************************)
(* Support-ticket triage service: storage accessor (app/db.py), the        *)
(* three-node analysis pipeline (app/agent.py) and the HTTP handlers       *)
(* (app/main.py), as a state machine over the three tables.                *)
(*                                                                         *)
(* POST /api/analyze requests are numbered in order of arrival; each runs  *)
(* the pipeline once, one step per database or external-service call, so   *)
(* that requests served by different worker threads interleave at those    *)
(* calls.  Every database call and every classification call may fail.     *)
(***************************************************************************)
EXTENDS Integers, Sequences, FiniteSets, TLC

\* ---------------------------------------------------------------- bounds
MaxTicketId == 2      \* ticket ids handed out by the tickets id sequence
MaxBatch == 2         \* tickets in one POST /api/tickets body
MaxRequests == 2      \* POST /api/analyze requests

\* ------------------------------------------------------------- constants
PlaceholderRunId == 0

\* Optional values: None is the empty tuple, a present value x is <<x>>.
None == <<>>
Some(x) == <<x>>

Categories == {"billing", "bug", "feature_request", "general"}
Priorities == {"high", "medium", "low"}

Requests == 1..MaxRequests

\* An id no stored ticket ever has.
UnstoredId == MaxTicketId + 1

\* Bodies of POST /api/tickets: lists of TicketCreate, here the lists of one
\* to MaxBatch tickets that alternate between two texts.
TicketCreate(i) ==
    IF i % 2 = 1 THEN [title |-> "Question", description |-> "hello"]
    ELSE [title |-> "App crash", description |-> "urgent"]

CreateTicketsRequest == {[i \in 1..n |-> TicketCreate(i)] : n \in 1..MaxBatch}

\* Bodies of POST /api/analyze: ticket_ids absent, empty, or a list of ids.
AnalyzeRequest == {None, Some(<<>>), Some(<<2, UnstoredId, 2>>)}

\* What the classification service may answer with for one ticket, when it
\* answers with a JSON object that has the three string fields.
TicketClassification ==
    {[category |-> "bug", priority |-> "high", reasoning |-> "r"],
     [category |-> "general", priority |-> "low", reasoning |-> "r"],
     [category |-> "refund", priority |-> "urgent", reasoning |-> "r"]}

VARIABLES
    tickets,          \* table tickets, in insertion order
    analysis_runs,    \* table analysis_runs, in insertion order
    ticket_analysis,  \* table ticket_analysis, in insertion order
    ticket_id_seq,    \* last value of the tickets id sequence
    run_id_seq,       \* last value of the analysis_runs id sequence
    ta_id_seq,        \* last value of the ticket_analysis id sequence
    now,              \* the database clock, NOW(): it has moved on whenever a
                      \* later transaction stamps a row
    req,              \* per analyze request: the AgentState and its position
    rd,               \* GET /api/analysis/latest in flight
    resp              \* the response the other endpoints send in this step

vars == <<tickets, analysis_runs, ticket_analysis, ticket_id_seq, run_id_seq,
          ta_id_seq, now, req, rd, resp>>

tables == <<tickets, analysis_runs, ticket_analysis, ticket_id_seq,
            run_id_seq, ta_id_seq, now>>

\* --------------------------------------------------------------- helpers
Range(s) == {s[i] : i \in DOMAIN s}

TicketIds == {t.id : t \in Range(tickets)}

\* ORDER BY created_at DESC over a set of rows: every order the database may
\* return, rows with equal created_at in either order.
OrderByCreatedAtDesc(S) ==
    {s \in [1..Cardinality(S) -> S] :
        \A i, j \in 1..Cardinality(S) :
            i < j => s[i] # s[j] /\ s[i].created_at >= s[j].created_at}

\* ------------------------------------------------------- storage accessor
\* The stored rows deleted before the new ones are inserted.
InsertAfterDelete(table, rows) == rows

\* INSERT INTO table, committed: the table after it.
InsertInto(table, rows) == table \o rows

get_all_tickets == OrderByCreatedAtDesc(Range(tickets))

\* The WHERE clause left out.
get_tickets_by_ids_no_where(ticket_ids) == OrderByCreatedAtDesc(Range(tickets))

get_tickets_by_ids(ticket_ids) ==
    OrderByCreatedAtDesc({t \in Range(tickets) : t.id \in Range(ticket_ids)})

\* The returned list built back to front.
InsertedTicketsReversed(batch, k) ==
    [i \in 1..k |-> [id |-> ticket_id_seq + i,
                     title |-> batch[k + 1 - i].title,
                     description |-> batch[k + 1 - i].description,
                     created_at |-> now]]

\* The rows insert_tickets has inserted after its first k statements.
InsertedTickets(batch, k) ==
    [i \in 1..k |-> [id |-> ticket_id_seq + i,
                     title |-> batch[i].title,
                     description |-> batch[i].description,
                     created_at |-> now]]

\* ORDER BY created_at ASC instead of DESC.
LatestRunRowsAsc ==
    {run \in Range(analysis_runs) :
        \A other \in Range(analysis_runs) : other.created_at >= run.created_at}

\* SELECT ... FROM analysis_runs ORDER BY created_at DESC LIMIT 1: the rows
\* the database may return (none when the table is empty).
LatestRunRows ==
    {run \in Range(analysis_runs) :
        \A other \in Range(analysis_runs) : other.created_at <= run.created_at}

\* One row of ticket_analysis ta JOIN tickets t ON ta.ticket_id = t.id.
TicketWithAnalysis(ta, t) ==
    [id |-> t.id, title |-> t.title, description |-> t.description,
     created_at |-> t.created_at, category |-> ta.category,
     priority |-> ta.priority, notes |-> ta.notes]

\* The join without WHERE ta.analysis_run_id = run_id: the rows of all runs.
JoinedRowsOfAllRuns(run_id) ==
    LET pairs == {<<i, j>> \in (DOMAIN ticket_analysis) \X (DOMAIN tickets) :
                     ticket_analysis[i].ticket_id = tickets[j].id}
        n == Cardinality(pairs)
        orders == {s \in [1..n -> pairs] :
                     \A a, b \in 1..n :
                        a < b => /\ s[a] # s[b]
                                 /\ tickets[s[a][2]].created_at
                                        >= tickets[s[b][2]].created_at}
    IN {[a \in 1..n |-> TicketWithAnalysis(ticket_analysis[s[a][1]],
                                           tickets[s[a][2]])] : s \in orders}

\* The join of get_latest_analysis, WHERE ta.analysis_run_id = run_id
\* ORDER BY t.created_at DESC: every list the database may return.
JoinedRows(run_id) ==
    LET pairs == {<<i, j>> \in (DOMAIN ticket_analysis) \X (DOMAIN tickets) :
                     /\ ticket_analysis[i].ticket_id = tickets[j].id
                     /\ ticket_analysis[i].analysis_run_id = run_id}
        n == Cardinality(pairs)
        orders == {s \in [1..n -> pairs] :
                     \A a, b \in 1..n :
                        a < b => /\ s[a] # s[b]
                                 /\ tickets[s[a][2]].created_at
                                        >= tickets[s[b][2]].created_at}
    IN {[a \in 1..n |-> TicketWithAnalysis(ticket_analysis[s[a][1]],
                                           tickets[s[a][2]])] : s \in orders}

LatestAnalysisResponse(run, rows) ==
    [analysis_run_id |-> run.id, created_at |-> run.created_at,
     summary |-> run.summary, tickets |-> rows]

\* create_analysis_run's INSERT ... RETURNING id, created_at, summary.  The
\* field request is not a column: it records which analyze request made the
\* row.
AnalysisRun(summary, r) ==
    [id |-> run_id_seq + 1, created_at |-> now, summary |-> summary,
     request |-> r]

\* The foreign keys of ticket_analysis.
ForeignKeysHold(analysis, runs) ==
    /\ analysis.ticket_id \in TicketIds
    /\ analysis.analysis_run_id \in {x.id : x \in Range(runs)}

\* The rows bulk_insert_ticket_analysis has inserted after its first k
\* statements; request as in AnalysisRun.
InsertedAnalyses(analyses, k, r) ==
    [i \in 1..k |-> [id |-> ta_id_seq + i,
                     analysis_run_id |-> analyses[i].analysis_run_id,
                     ticket_id |-> analyses[i].ticket_id,
                     category |-> analyses[i].category,
                     priority |-> analyses[i].priority,
                     notes |-> analyses[i].notes,
                     request |-> r]]

\* ------------------------------------------------------------ the pipeline
\* The graph with the edge out of fetch_tickets drawn to save_results.
EdgeSkippingAnalyze(node) ==
    CASE node = "fetch_tickets" -> "save_results"
      [] node = "analyze_tickets" -> "save_results"
      [] node = "save_results" -> "END"

\* The edges of the compiled graph.
Edge(node) ==
    CASE node = "fetch_tickets" -> "analyze_tickets"
      [] node = "analyze_tickets" -> "save_results"
      [] node = "save_results" -> "END"

EntryPoint == "fetch_tickets"

\* if ticket_ids: a list that is present and not empty.
Truthy(ticket_ids) == ticket_ids # None /\ Len(ticket_ids[1]) > 0

\* if ticket_ids is not None, in place of if ticket_ids.
fetch_tickets_node_is_not_none(ticket_ids) ==
    IF ticket_ids # None THEN get_tickets_by_ids(ticket_ids[1])
    ELSE get_all_tickets

\* The lists fetch_tickets_node may put into state["tickets"].
fetch_tickets_node(ticket_ids) ==
    IF Truthy(ticket_ids) THEN get_tickets_by_ids(ticket_ids[1])
    ELSE get_all_tickets

\* The service's answer set aside for the defaults general and medium.
TicketAnalysisCreateDefaults(ticket, classification) ==
    [analysis_run_id |-> PlaceholderRunId,
     ticket_id |-> ticket.id,
     category |-> "general",
     priority |-> "medium",
     notes |-> classification.reasoning]

\* The TicketAnalysisCreate made from one classification.
TicketAnalysisCreate(ticket, classification) ==
    [analysis_run_id |-> PlaceholderRunId,
     ticket_id |-> ticket.id,
     category |-> classification.category,
     priority |-> classification.priority,
     notes |-> classification.reasoning]

CountPriority(analyses, p) ==
    Cardinality({i \in DOMAIN analyses : analyses[i].priority = p})

CountCategory(analyses, c) ==
    Cardinality({i \in DOMAIN analyses : analyses[i].category = c})

\* The total taken as the sum of the three priority counts.
SummaryTotalOfCounts(ticket_list, analyses) ==
    [total |-> CountPriority(analyses, "high")
                 + CountPriority(analyses, "medium")
                 + CountPriority(analyses, "low"),
     high |-> CountPriority(analyses, "high"),
     medium |-> CountPriority(analyses, "medium"),
     low |-> CountPriority(analyses, "low"),
     categories |-> [c \in {a.category : a \in Range(analyses)} |->
                        CountCategory(analyses, c)]]

\* The numbers the summary text is formatted from.
Summary(ticket_list, analyses) ==
    [total |-> Len(ticket_list),
     high |-> CountPriority(analyses, "high"),
     medium |-> CountPriority(analyses, "medium"),
     low |-> CountPriority(analyses, "low"),
     categories |-> [c \in {a.category : a \in Range(analyses)} |->
                        CountCategory(analyses, c)]]

\* The run id taken from the oldest stored run instead of the run made.
SetRunIdOfFirstRun(analyses, id) ==
    [i \in DOMAIN analyses |->
        [analyses[i] EXCEPT !.analysis_run_id =
            IF analysis_runs = <<>> THEN id ELSE analysis_runs[1].id]]

\* for analysis in analyses: analysis.analysis_run_id = analysis_run.id
SetRunId(analyses, id) ==
    [i \in DOMAIN analyses |-> [analyses[i] EXCEPT !.analysis_run_id = id]]

\* run_agent's return value, which the handler turns into AnalyzeResponse.
RunAgentResult(state) ==
    [run_id |-> state.run_id[1],
     summary |-> state.summary,
     ticket_count |-> Len(state.tickets)]

\* run_agent's initial_state, before the request has arrived.
InitialState ==
    [node |-> "idle", ticket_ids |-> None, tickets |-> <<>>, run_id |-> None,
     summary |-> <<>>, analyses |-> <<>>,
     analysis_run |-> None,     \* save_results_node's local analysis_run.id
     stored_at_fetch |-> {},    \* ids in the tickets table when fetch ran
     failed_in |-> "",          \* the call an exception came from
     classified |-> 0,          \* tickets classified before the exception
     status |-> "", result |-> None]

\* No response of create_tickets, list_tickets or get_latest_analysis_results
\* is sent in this step.
NoResponse == [op |-> "", status |-> "", body |-> <<>>]

\* The exception caught inside the node, which carries on.
RaiseSwallowed(r, call) ==
    req' = [req EXCEPT ![r].failed_in = call]

\* An exception in the call named leaves the graph, the AgentState is
\* dropped and the handler answers 500.
Raise(r, call) ==
    req' = [req EXCEPT ![r] = [InitialState EXCEPT
                                  !.node = "failed",
                                  !.ticket_ids = req[r].ticket_ids,
                                  !.stored_at_fetch = req[r].stored_at_fetch,
                                  !.failed_in = call,
                                  !.classified = Len(req[r].analyses),
                                  !.status = "500"]]

\* Every statement committed as it is executed: the rollback undoes nothing.
RolledBackNothing(inserted) == inserted

\* conn.rollback() in bulk_insert_ticket_analysis: what stays stored of the
\* rows the transaction has inserted.
RolledBack(inserted) == <<>>

\* One transaction around both calls of save_results_node: the rollback
\* takes the run along.
RollbackWithRun(runs, r) ==
    SelectSeq(runs, LAMBDA run : run.request # r)

\* conn.rollback() in bulk_insert_ticket_analysis: analysis_runs after it.
\* create_analysis_run committed on a connection of its own, so its row
\* stays.
Rollback(runs, r) == runs

----
Init ==
    /\ tickets = <<>>
    /\ analysis_runs = <<>>
    /\ ticket_analysis = <<>>
    /\ ticket_id_seq = 0
    /\ run_id_seq = 0
    /\ ta_id_seq = 0
    /\ now = 1
    /\ req = [r \in Requests |-> InitialState]
    /\ rd = [pc |-> "idle", run |-> None]
    /\ resp = NoResponse

\* POST /api/tickets: insert_tickets(batch) in one transaction.  A failure
\* after k statements rolls the rows back; the id sequence keeps its value.
create_tickets(batch) ==
    /\ ticket_id_seq + Len(batch) <= MaxTicketId
    /\ \/ LET inserted == InsertedTickets(batch, Len(batch)) IN
          /\ tickets' = InsertInto(tickets, inserted)
          /\ ticket_id_seq' = ticket_id_seq + Len(batch)
          /\ now' = now + 1
          /\ resp' = [op |-> "create_tickets", status |-> "200",
                      body |-> inserted]
       \/ \E k \in 0..Len(batch) :
             /\ ticket_id_seq' = ticket_id_seq + k
             /\ resp' = [op |-> "create_tickets", status |-> "500",
                         body |-> <<>>]
             /\ UNCHANGED <<tickets, now>>
    /\ UNCHANGED <<analysis_runs, ticket_analysis, run_id_seq, ta_id_seq, req, rd>>

\* GET /api/tickets
list_tickets ==
    /\ \/ \E ts \in get_all_tickets :
             resp' = [op |-> "list_tickets", status |-> "200", body |-> ts]
       \/ resp' = [op |-> "list_tickets", status |-> "500", body |-> <<>>]
    /\ UNCHANGED <<tables, req, rd>>

\* GET /api/analysis/latest, first query of get_latest_analysis.
GetLatestRun ==
    /\ rd.pc = "idle"
    /\ \/ /\ LatestRunRows = {}
          /\ resp' = [op |-> "get_latest_analysis", status |-> "200",
                      body |-> None]
          /\ UNCHANGED rd
       \/ \E run \in LatestRunRows :
             /\ rd' = [pc |-> "rows", run |-> Some(run)]
             /\ resp' = NoResponse
       \/ /\ resp' = [op |-> "get_latest_analysis", status |-> "500",
                      body |-> <<>>]
          /\ UNCHANGED rd
    /\ UNCHANGED <<tables, req>>

\* Second query of get_latest_analysis, on the same connection, and the
\* response.
GetLatestRows ==
    /\ rd.pc = "rows"
    /\ rd' = [pc |-> "idle", run |-> None]
    /\ \/ \E rows \in JoinedRows(rd.run[1].id) :
             resp' = [op |-> "get_latest_analysis", status |-> "200",
                      body |-> Some(LatestAnalysisResponse(rd.run[1], rows))]
       \/ resp' = [op |-> "get_latest_analysis", status |-> "500",
                   body |-> <<>>]
    /\ UNCHANGED <<tables, req>>

\* POST /api/analyze arrives: run_agent(ticket_ids) enters the graph.
analyze_tickets(r, ticket_ids) ==
    /\ req[r].node = "idle"
    /\ r > 1 => req[r - 1].node # "idle"
    /\ req' = [req EXCEPT ![r].node = EntryPoint, ![r].ticket_ids = ticket_ids]
    /\ resp' = NoResponse
    /\ UNCHANGED <<tables, rd>>

FetchTickets(r) ==
    /\ req[r].node = "fetch_tickets"
    /\ \/ \E ts \in fetch_tickets_node(req[r].ticket_ids) :
             req' = [req EXCEPT ![r].tickets = ts,
                                ![r].stored_at_fetch = TicketIds,
                                ![r].node = Edge("fetch_tickets")]
       \/ Raise(r, "fetch_tickets_node")
    /\ resp' = NoResponse
    /\ UNCHANGED <<tables, rd>>

\* analyze_tickets_node, one call of the service per step: a turn of the
\* loop, and after the last turn (or at once, for no tickets) the summary and
\* the edge to the next node.
AnalyzeTickets(r) ==
    /\ req[r].node = "analyze_tickets"
    /\ LET done(analyses) ==
               [req EXCEPT
                  ![r].analyses = analyses,
                  ![r].summary = Some(Summary(req[r].tickets, analyses)),
                  ![r].node = Edge("analyze_tickets")]
           i == Len(req[r].analyses) + 1
       IN \/ /\ i <= Len(req[r].tickets)
             /\ \E c \in TicketClassification :
                   LET analyses == Append(req[r].analyses,
                                      TicketAnalysisCreate(req[r].tickets[i], c))
                   IN req' = IF i = Len(req[r].tickets) THEN done(analyses)
                             ELSE [req EXCEPT ![r].analyses = analyses]
          \/ /\ i <= Len(req[r].tickets)
             /\ Raise(r, "classify_ticket_with_llm")
          \/ /\ Len(req[r].tickets) = 0
             /\ req' = done(<<>>)
    /\ resp' = NoResponse
    /\ UNCHANGED <<tables, rd>>

\* save_results_node, first call: create_analysis_run(summary).
CreateAnalysisRun(r) ==
    /\ req[r].node = "save_results"
    /\ req[r].analysis_run = None
    /\ \/ LET run == AnalysisRun(req[r].summary, r) IN
          /\ analysis_runs' = InsertInto(analysis_runs, <<run>>)
          /\ run_id_seq' = run.id
          /\ now' = now + 1
          /\ req' = [req EXCEPT ![r].analysis_run = Some(run.id),
                                ![r].analyses = SetRunId(@, run.id)]
       \/ \E used \in 0..1 :
             /\ run_id_seq' = run_id_seq + used
             /\ Raise(r, "create_analysis_run")
             /\ UNCHANGED <<analysis_runs, now>>
    /\ resp' = NoResponse
    /\ UNCHANGED <<tickets, ticket_analysis, ticket_id_seq, ta_id_seq, rd>>

\* save_results_node, second call: bulk_insert_ticket_analysis(analyses),
\* then END, run_agent's result and the handler's response; the AgentState
\* is dropped.
BulkInsertTicketAnalysis(r) ==
    /\ req[r].node = "save_results"
    /\ req[r].analysis_run # None
    /\ LET n == Len(req[r].analyses) IN
       \/ /\ \A a \in Range(req[r].analyses) : ForeignKeysHold(a, analysis_runs)
          /\ ticket_analysis' =
                 InsertInto(ticket_analysis,
                            InsertedAnalyses(req[r].analyses, n, r))
          /\ ta_id_seq' = ta_id_seq + n
          /\ LET final == [req[r] EXCEPT !.run_id = req[r].analysis_run] IN
             req' = [req EXCEPT ![r] =
                        [InitialState EXCEPT
                            !.node = Edge("save_results"),
                            !.ticket_ids = req[r].ticket_ids,
                            !.stored_at_fetch = req[r].stored_at_fetch,
                            !.result = Some(RunAgentResult(final)),
                            !.status = "200"]]
          /\ UNCHANGED analysis_runs
       \/ \E k \in 0..n :
             /\ ta_id_seq' = ta_id_seq + k
             /\ Raise(r, "bulk_insert_ticket_analysis")
             /\ analysis_runs' = Rollback(analysis_runs, r)
             /\ ticket_analysis' =
                    ticket_analysis
                       \o RolledBack(InsertedAnalyses(req[r].analyses, k, r))
    /\ resp' = NoResponse
    /\ UNCHANGED <<tickets, ticket_id_seq, run_id_seq, now, rd>>

\* The endpoints that write, and the steps of the pipeline.
NextWrites ==
    \/ \E batch \in CreateTicketsRequest : create_tickets(batch)
    \/ \E r \in Requests, ids \in AnalyzeRequest : analyze_tickets(r, ids)
    \/ \E r \in Requests : FetchTickets(r)
    \/ \E r \in Requests : AnalyzeTickets(r)
    \/ \E r \in Requests : CreateAnalysisRun(r)
    \/ \E r \in Requests : BulkInsertTicketAnalysis(r)

\* The endpoints that only read.
NextReads ==
    \/ list_tickets
    \/ GetLatestRun
    \/ GetLatestRows

Next == NextWrites \/ NextReads

\* All endpoints, served concurrently.
Spec == Init /\ [][Next]_vars

\* The same without the endpoints that only read: they change neither the
\* tables nor a pipeline's state, so the tables and pipelines reached are the
\* same.
SpecWrites == Init /\ [][NextWrites]_vars

----
\* Rows of ticket_analysis, and runs, made by analyze request r.
RowsIn(rows, r) == {i \in DOMAIN rows : rows[i].request = r}

RunsIn(runs, r) == {i \in DOMAIN runs : runs[i].request = r}

RowsOf(r) == RowsIn(ticket_analysis, r)

RunsOf(r) == RunsIn(analysis_runs, r)

RowsOfRun(id) ==
    {i \in DOMAIN ticket_analysis : ticket_analysis[i].analysis_run_id = id}

\* C1: a run started with a non-empty list of ticket ids S fetches,
\* classifies and inserts rows only for tickets whose id is in S, and only
\* for stored tickets: an id of S that matches no ticket gives no row.
C1_OnlyTheGivenIds ==
    \A r \in Requests :
        Truthy(req[r].ticket_ids) =>
            LET S == Range(req[r].ticket_ids[1]) IN
            /\ \A t \in Range(req[r].tickets) : t.id \in S
            /\ \A a \in Range(req[r].analyses) : a.ticket_id \in S
            /\ \A i \in RowsOf(r) :
                  ticket_analysis[i].ticket_id \in S \cap TicketIds

\* A finished run over <<2, UnstoredId, 2>> that inserted a row while another
\* ticket was stored.
C1_Witness ==
    \E r \in Requests :
        /\ req[r].node = "END"
        /\ Truthy(req[r].ticket_ids)
        /\ UnstoredId \in Range(req[r].ticket_ids[1])
        /\ RowsOf(r) # {}
        /\ req[r].stored_at_fetch \ Range(req[r].ticket_ids[1]) # {}

\* C2: with ticket_ids absent or empty the fetch loads all tickets, and a
\* successful run has inserted exactly one row for each ticket that was
\* stored when the fetch ran.
C2_AllTicketsWhenNoIds ==
    \A r \in Requests :
        ~Truthy(req[r].ticket_ids) =>
            /\ req[r].node \in {"analyze_tickets", "save_results"} =>
                  /\ {t.id : t \in Range(req[r].tickets)} = req[r].stored_at_fetch
                  /\ Len(req[r].tickets) = Cardinality(req[r].stored_at_fetch)
            /\ req[r].node = "END" =>
                  /\ {ticket_analysis[i].ticket_id : i \in RowsOf(r)}
                        = req[r].stored_at_fetch
                  /\ Cardinality(RowsOf(r)) = Cardinality(req[r].stored_at_fetch)

\* A finished run with an empty id list, over a ticket stored at the fetch,
\* a further ticket having been stored since.
C2_Witness ==
    \E r \in Requests :
        /\ req[r].node = "END"
        /\ req[r].ticket_ids = Some(<<>>)
        /\ req[r].stored_at_fetch # {}
        /\ req[r].stored_at_fetch # TicketIds

\* C3: for a successful run the total of the summary, the ticket_count
\* returned and the number of rows inserted with the run's id are equal.
C3_TotalIsRowCount ==
    \A r \in Requests :
        req[r].node = "END" =>
            LET result == req[r].result[1] IN
            /\ result.summary[1].total = result.ticket_count
            /\ result.ticket_count = Cardinality(RowsOfRun(result.run_id))

\* Both requests finished, one of them over two tickets.
C3_Witness ==
    /\ \A r \in Requests : req[r].node = "END"
    /\ \E r \in Requests : req[r].result[1].ticket_count = 2

\* C4: every stored ticket_analysis row references a stored ticket and a
\* stored analysis run made by the pipeline execution that inserted the row;
\* the placeholder run id is never stored.
C4_RowsReferenceOwnRun ==
    \A i \in DOMAIN ticket_analysis :
        LET ta == ticket_analysis[i] IN
        /\ ta.ticket_id \in TicketIds
        /\ ta.analysis_run_id # PlaceholderRunId
        /\ \E j \in DOMAIN analysis_runs :
              /\ analysis_runs[j].id = ta.analysis_run_id
              /\ analysis_runs[j].request = ta.request

\* Rows of two different runs are stored.
C4_Witness ==
    \A r \in Requests : req[r].node = "END" /\ RowsOf(r) # {}

\* C5: get_latest_analysis answers null exactly when no analysis run is
\* stored; otherwise its first query takes the most recently created run, and
\* the response carries that run's id and summary and exactly one ticket row
\* for each stored analysis of that run, none of another run, each with the
\* category and priority of its analysis.
C5_LatestStep ==
    /\ (rd.pc = "idle" /\ resp'.status # "500" /\ GetLatestRun) =>
          /\ (analysis_runs = <<>>) <=> (resp'.status = "200" /\ resp'.body = None)
          /\ analysis_runs # <<>> =>
                /\ rd'.pc = "rows"
                /\ rd'.run[1] \in Range(analysis_runs)
                /\ \A j \in DOMAIN analysis_runs :
                      /\ analysis_runs[j].created_at <= rd'.run[1].created_at
                      /\ analysis_runs[j].id <= rd'.run[1].id
    /\ (rd.pc = "rows" /\ resp'.status = "200" /\ GetLatestRows) =>
          LET body == resp'.body[1]
              mine == RowsOfRun(rd.run[1].id)
              same(k, i) ==
                  /\ body.tickets[k].id = ticket_analysis[i].ticket_id
                  /\ body.tickets[k].category = ticket_analysis[i].category
                  /\ body.tickets[k].priority = ticket_analysis[i].priority
          IN /\ body.analysis_run_id = rd.run[1].id
             /\ body.summary = rd.run[1].summary
             /\ Len(body.tickets) = Cardinality(mine)
             /\ \A i \in mine : \E k \in DOMAIN body.tickets : same(k, i)
             /\ \A k \in DOMAIN body.tickets : \E i \in mine : same(k, i)
             /\ \A k \in DOMAIN body.tickets :
                   /\ body.tickets[k].category
                         \in {c.category : c \in TicketClassification}
                   /\ body.tickets[k].priority
                         \in {c.priority : c \in TicketClassification}

C5_LatestIsNewestRun == [][C5_LatestStep]_vars

\* The response carries the second of two stored runs and its rows, the
\* first run having rows too.
C5_Witness ==
    /\ resp.op = "get_latest_analysis"
    /\ resp.status = "200"
    /\ resp.body # None
    /\ Len(analysis_runs) = 2
    /\ resp.body[1].analysis_run_id = analysis_runs[2].id
    /\ Len(resp.body[1].tickets) > 0
    /\ RowsOfRun(analysis_runs[1].id) # {}

\* C6: once the fetch or the classification of a ticket has failed in a
\* request, the request is aborted with a server error, and no analysis run
\* and no ticket_analysis row of it is stored.
C6_FailureAbortsRun ==
    \A r \in Requests :
        req[r].failed_in \in {"fetch_tickets_node", "classify_ticket_with_llm"} =>
            /\ req[r].node = "failed"
            /\ req[r].status = "500"
            /\ RunsOf(r) = {}
            /\ RowsOf(r) = {}

\* A classification failed after another ticket of the run was classified.
C6_Witness ==
    \E r \in Requests :
        /\ req[r].failed_in = "classify_ticket_with_llm"
        /\ req[r].classified > 0

\* C7: the run row is committed by a transaction of its own: when the bulk
\* insert fails, the request's run stays stored, with none of its rows.
C7_RunStaysAfterFailedInsert ==
    \A r \in Requests :
        req[r].failed_in = "bulk_insert_ticket_analysis" =>
            /\ Cardinality(RunsOf(r)) = 1
            /\ RowsOf(r) = {}

\* A stored run whose summary counts more tickets than it has rows, left by
\* a failed bulk insert.
C7_Witness ==
    \E r \in Requests :
        /\ req[r].failed_in = "bulk_insert_ticket_analysis"
        /\ \E j \in RunsOf(r) :
              analysis_runs[j].summary[1].total
                 > Cardinality(RowsOfRun(analysis_runs[j].id))

\* C8: a successful insert_tickets of N tickets returns N tickets with the
\* input's texts in input order, each with an id no stored ticket had and no
\* other returned ticket has, all of them stored; a failed one stores nothing
\* and answers 500; stored tickets stay stored, and a listing returns all
\* stored tickets.
C8_CreateStep ==
    /\ \A batch \in CreateTicketsRequest :
          (resp'.op = "create_tickets" /\ create_tickets(batch)) =>
             IF resp'.status = "200"
             THEN LET body == resp'.body IN
                  /\ Len(body) = Len(batch)
                  /\ \A i \in DOMAIN body :
                        /\ body[i].title = batch[i].title
                        /\ body[i].description = batch[i].description
                        /\ body[i].id \notin TicketIds
                        /\ body[i] \in Range(tickets')
                        /\ \A j \in DOMAIN body : i # j => body[i].id # body[j].id
                  /\ Len(tickets') >= Len(batch)
             ELSE /\ resp'.status = "500"
                  /\ tickets' = tickets
    /\ \A t \in Range(tickets) : t \in Range(tickets')
    /\ (resp'.op = "list_tickets" /\ resp'.status = "200" /\ list_tickets) =>
          /\ Range(resp'.body) = Range(tickets)
          /\ Len(resp'.body) = Len(tickets)

C8_InsertTickets == [][C8_CreateStep]_vars

\* A ticket was created while another was stored.
C8_Witness ==
    /\ resp.op = "create_tickets"
    /\ resp.status = "200"
    /\ Len(resp.body) > 0
    /\ Len(tickets) > Len(resp.body)

\* C9: a request moves through fetch_tickets, analyze_tickets, save_results
\* and END in this order, each entered once; no ticket is classified before
\* the fetch is over; the run row is stored only when every fetched ticket is
\* classified, and the rows only after the run row.
C9_StageOrderInv ==
    \A r \in Requests :
        /\ req[r].node \in {"idle", "fetch_tickets"} =>
              req[r].tickets = <<>> /\ req[r].analyses = <<>>
        /\ req[r].node \in {"idle", "fetch_tickets", "analyze_tickets"} =>
              RunsOf(r) = {} /\ RowsOf(r) = {}
        /\ req[r].node = "analyze_tickets" =>
              Len(req[r].analyses) < Len(req[r].tickets) \/ req[r].tickets = <<>>
        /\ req[r].node = "save_results" =>
              /\ Len(req[r].analyses) = Len(req[r].tickets)
              /\ RowsOf(r) = {}
        /\ RowsOf(r) # {} => RunsOf(r) # {}
        /\ Cardinality(RunsOf(r)) <= 1

C9_StageOrderStep ==
    \A r \in Requests :
        /\ req'[r].node # req[r].node =>
              \/ <<req[r].node, req'[r].node>> \in
                    {<<"idle", "fetch_tickets">>,
                     <<"fetch_tickets", "analyze_tickets">>,
                     <<"analyze_tickets", "save_results">>,
                     <<"save_results", "END">>}
              \/ /\ req'[r].node = "failed"
                 /\ req[r].node \in {"fetch_tickets", "analyze_tickets",
                                      "save_results"}
        /\ RunsIn(analysis_runs', r) # RunsOf(r) =>
              /\ req[r].node = "save_results"
              /\ Len(req[r].analyses) = Len(req[r].tickets)
              /\ RowsIn(ticket_analysis', r) = {}
        /\ RowsIn(ticket_analysis', r) # RowsOf(r) =>
              /\ req[r].node = "save_results"
              /\ RunsOf(r) # {}

C9_StageOrder == []C9_StageOrderInv /\ [][C9_StageOrderStep]_vars

\* A request went through all stages and stored a run with two rows.
C9_Witness ==
    \E r \in Requests :
        /\ req[r].node = "END"
        /\ Cardinality(RowsOf(r)) = 2
        /\ Cardinality(RunsOf(r)) = 1

\* C10: every stored ticket_analysis row has its category and priority
\* among the listed values, and the high, medium and low counts of every
\* stored summary add up to its total.
C10_ValuesInEnums ==
    /\ \A i \in DOMAIN ticket_analysis :
          /\ ticket_analysis[i].category \in Categories
          /\ ticket_analysis[i].priority \in Priorities
    /\ \A j \in DOMAIN analysis_runs :
          LET summary == analysis_runs[j].summary[1] IN
          summary.high + summary.medium + summary.low = summary.total

\* The keywords among "crash" and "urgent" that the lower-cased title and
\* description of a ticket contain, for the texts of TicketCreate.
KeywordsIn(t) ==
    (IF t.title = "App crash" THEN {"crash"} ELSE {})
        \cup (IF t.description = "urgent" THEN {"urgent"} ELSE {})

TicketOfRow(ta) == CHOOSE t \in Range(tickets) : t.id = ta.ticket_id

\* C11 as stated: the stored classification follows from the ticket's text
\* ("crash" gives category bug, "urgent" gives priority high, neither keyword
\* gives general and medium), and two runs over the same ticket store the
\* same category and priority.
C11_KeywordClassification ==
    /\ \A i \in DOMAIN ticket_analysis :
          LET ta == ticket_analysis[i]
              words == KeywordsIn(TicketOfRow(ta))
          IN /\ "crash" \in words => ta.category = "bug"
             /\ "urgent" \in words => ta.priority = "high"
             /\ words = {} => ta.category = "general" /\ ta.priority = "medium"
    /\ \A i, j \in DOMAIN ticket_analysis :
          ticket_analysis[i].ticket_id = ticket_analysis[j].ticket_id =>
              /\ ticket_analysis[i].category = ticket_analysis[j].category
              /\ ticket_analysis[i].priority = ticket_analysis[j].priority

\* C11, amended: the classification of a ticket is what the classification
\* service answers, one call per fetched ticket in fetch order: the analysis
\* made in a turn of the loop has the turn's ticket and the category and
\* priority of one answer, earlier analyses stay as they are, and the rows
\* stored for a run have the tickets, categories and priorities of its
\* analyses, in order.
C11_ClassifiedStep ==
    \A r \in Requests :
        /\ (/\ req[r].node = "analyze_tickets"
            /\ Len(req'[r].analyses) = Len(req[r].analyses) + 1) =>
              LET i == Len(req'[r].analyses)
                  a == req'[r].analyses[i]
              IN /\ a.ticket_id = req[r].tickets[i].id
                 /\ \E c \in TicketClassification :
                       a.category = c.category /\ a.priority = c.priority
                 /\ SubSeq(req'[r].analyses, 1, i - 1) = req[r].analyses
        /\ RowsIn(ticket_analysis', r) # RowsOf(r) =>
              /\ Len(ticket_analysis')
                    = Len(ticket_analysis) + Len(req[r].analyses)
              /\ \A k \in DOMAIN req[r].analyses :
                    LET row == ticket_analysis'[Len(ticket_analysis) + k]
                        a == req[r].analyses[k]
                    IN /\ row.ticket_id = req[r].tickets[k].id
                       /\ row.ticket_id = a.ticket_id
                       /\ row.category = a.category
                       /\ row.priority = a.priority

C11_ClassificationIsTheAnswer == [][C11_ClassifiedStep]_vars

\* Two runs stored different classifications of the same ticket, whose text
\* has both keywords, one of them neither bug nor high.
C11_Witness ==
    \E i, j \in DOMAIN ticket_analysis :
        /\ ticket_analysis[i].ticket_id = ticket_analysis[j].ticket_id
        /\ KeywordsIn(TicketOfRow(ticket_analysis[i])) = {"crash", "urgent"}
        /\ ticket_analysis[i].category = "bug"
        /\ ticket_analysis[i].priority = "high"
        /\ ticket_analysis[j].category = "general"
        /\ ticket_analysis[j].priority = "low"

IsPrefix(s, t) == Len(s) <= Len(t) /\ SubSeq(t, 1, Len(s)) = s

\* C12: no step changes or removes a stored ticket, analysis run or
\* ticket_analysis row (each table only grows at its end); a step of a
\* pipeline run leaves the tickets table as it is, and so do the listing and
\* the latest-result read, which leave all three tables as they are.
C12_FrameStep ==
    /\ IsPrefix(tickets, tickets')
    /\ IsPrefix(analysis_runs, analysis_runs')
    /\ IsPrefix(ticket_analysis, ticket_analysis')
    /\ (\E r \in Requests : req'[r] # req[r]) => tickets' = tickets
    /\ (resp'.op \in {"list_tickets", "get_latest_analysis"} \/ rd' # rd) =>
          /\ tickets' = tickets
          /\ analysis_runs' = analysis_runs
          /\ ticket_analysis' = ticket_analysis
    /\ resp'.op = "create_tickets" =>
          /\ analysis_runs' = analysis_runs
          /\ ticket_analysis' = ticket_analysis

C12_ImmutableAppendOnly == [][C12_FrameStep]_vars

\* The latest result is read with the rows of two runs stored, the tickets
\* those of two creations.
C12_Witness ==
    /\ resp.op = "get_latest_analysis"
    /\ resp.status = "200"
    /\ \A r \in Requests : RowsOf(r) # {} /\ RunsOf(r) # {}
    /\ Len(tickets) = 2
    /\ tickets[1].created_at # tickets[2].created_at

\* C13: bulk_insert_ticket_analysis is all-or-nothing.  The call either
\* returns, and then one row per given analysis is stored after the rows
\* stored before, in input order, with the analysis's fields and a new id; or
\* it fails, and then ticket_analysis is as before the call.  No stored run
\* ever has some but not all of its rows.
C13_AllOrNothingInv ==
    \A j \in DOMAIN analysis_runs :
        Cardinality(RowsOfRun(analysis_runs[j].id))
            \in {0, analysis_runs[j].summary[1].total}

C13_BulkInsertStep ==
    \A r \in Requests :
        (/\ req[r].node = "save_results"
         /\ req[r].analysis_run # None
         /\ req'[r].node # "save_results") =>
            LET given == req[r].analyses
                before == Len(ticket_analysis)
            IN \/ /\ req'[r].node = "END"
                  /\ Len(ticket_analysis') = before + Len(given)
                  /\ SubSeq(ticket_analysis', 1, before) = ticket_analysis
                  /\ \A k \in DOMAIN given :
                        LET row == ticket_analysis'[before + k] IN
                        /\ row.analysis_run_id = given[k].analysis_run_id
                        /\ row.ticket_id = given[k].ticket_id
                        /\ row.category = given[k].category
                        /\ row.priority = given[k].priority
                        /\ row.notes = given[k].notes
                        /\ \A i \in 1..(before + k - 1) :
                              ticket_analysis'[i].id # row.id
               \/ /\ req'[r].node = "failed"
                  /\ req'[r].failed_in = "bulk_insert_ticket_analysis"
                  /\ ticket_analysis' = ticket_analysis

C13_BulkInsertAllOrNothing ==
    []C13_AllOrNothingInv /\ [][C13_BulkInsertStep]_vars

\* A bulk insert of two analyses failed after a statement had been executed
\* and left no row, and another of two analyses stored both.
C13_Witness ==
    \E r, q \in Requests :
        /\ req[r].failed_in = "bulk_insert_ticket_analysis"
        /\ req[r].classified = 2
        /\ RowsOf(r) = {}
        /\ ta_id_seq > Len(ticket_analysis)
        /\ req[q].node = "END"
        /\ Cardinality(RowsOf(q)) = 2

\* The analyze request that made the stored run with the given id.
RequestOfRun(id) ==
    (CHOOSE run \in Range(analysis_runs) : run.id = id).request

\* C14 as stated: whenever get_latest_analysis returns a run, the number of
\* ticket rows it returns is the total of the run's summary.  Stated here
\* for the runs whose bulk insert has not failed, which leaves the reads
\* that fall into a pipeline run.
C14_NeverHalfPersisted ==
    (/\ resp.op = "get_latest_analysis"
     /\ resp.status = "200"
     /\ resp.body # None) =>
        LET body == resp.body[1] IN
        req[RequestOfRun(body.analysis_run_id)].failed_in
              # "bulk_insert_ticket_analysis" =>
            Len(body.tickets) = body.summary[1].total

\* C14, amended: the run is visible once create_analysis_run has committed.
\* Whenever get_latest_analysis returns a run, the number of ticket rows it
\* returns is the total of the run's summary or zero; it is the total when
\* the run's bulk insert had committed before the rows were read, and it is
\* another number only when the rows were read before the bulk insert
\* committed or after it failed.
C14_ReadStep ==
    (rd.pc = "rows" /\ resp'.status = "200" /\ GetLatestRows) =>
        LET body == resp'.body[1]
            n == Len(body.tickets)
            total == body.summary[1].total
            r == rd.run[1].request
        IN /\ n \in {0, total}
           /\ req[r].node = "END" => n = total
           /\ n # total =>
                 \/ /\ req[r].node = "save_results"
                    /\ req[r].analysis_run = Some(body.analysis_run_id)
                 \/ req[r].failed_in = "bulk_insert_ticket_analysis"

C14_RowsAllOrNoneWhenRead == [][C14_ReadStep]_vars

\* The read returned a run of one or more tickets without rows while the
\* run's request was between its two writes.
C14_Witness ==
    /\ resp.op = "get_latest_analysis"
    /\ resp.status = "200"
    /\ resp.body # None
    /\ resp.body[1].tickets = <<>>
    /\ resp.body[1].summary[1].total > 0
    /\ LET r == RequestOfRun(resp.body[1].analysis_run_id) IN
       /\ req[r].node = "save_results"
       /\ req[r].analysis_run = Some(resp.body[1].analysis_run_id)

====
